---- MODULE Spec2Model ----
(***************************************************************************)
(* Glinski hexagonal chess: the board (main.py), the move generator        *)
(* (move_validator.py), the initial position (src/constants.py) and the    *)
(* minimax engine (src/ai_engine.py), as state machines over one board.    *)
(***************************************************************************)
EXTENDS Integers, Sequences, FiniteSets, TLC

\* ------------------------------------------------------------------------
\* Coordinates and tiles (main.py, HexBoard)
\* ------------------------------------------------------------------------

BOARD_SIZE == 6

Abs(x) == IF x < 0 THEN -x ELSE x

Max2(a, b) == IF a >= b THEN a ELSE b

Min2(a, b) == IF a <= b THEN a ELSE b

RECURSIVE Concat(_)
Concat(ss) ==
    IF Len(ss) = 0 THEN << >> ELSE Head(ss) \o Concat(Tail(ss))

\* The tiles of column q, in the order _generate_tiles creates them.
\* A column that runs over every r of the bounding rhombus.
FullColumn(q) ==
    [i \in 1..(2 * BOARD_SIZE - 1) |-> <<q, i - BOARD_SIZE>>]

TileColumn(q) ==
    LET r1 == Max2(-BOARD_SIZE + 1, -q - BOARD_SIZE + 1)
        r2 == Min2(BOARD_SIZE - 1, -q + BOARD_SIZE - 1)
    IN  [i \in 1..(r2 - r1 + 1) |-> <<q, r1 + i - 1>>]

\* board.tiles in insertion (iteration) order.
TileSeq ==
    Concat([i \in 1..(2 * BOARD_SIZE - 1) |-> TileColumn(i - BOARD_SIZE)])

Tiles == {TileSeq[i] : i \in DOMAIN TileSeq}

HexDistance(q, r) == (Abs(q) + Abs(r) + Abs(-q - r)) \div 2

\* A tile's piece is a (colour, name) pair; an empty tile holds NoPiece.
NoPiece == <<"none", "none">>

Colors == {"white", "black"}

PieceNames == {"pawn", "knight", "bishop", "rook", "queen", "king"}

EmptyBoard == [t \in Tiles |-> NoPiece]

Other(color) == IF color = "white" THEN "black" ELSE "white"

\* board.get_tile(q, r) is not None
IsValidTile(q, r) == <<q, r>> \in Tiles

IsEmpty(b, q, r) == <<q, r>> \in Tiles /\ b[<<q, r>>] = NoPiece

IsEnemy(b, q, r, friendly_color) ==
    /\ <<q, r>> \in Tiles
    /\ b[<<q, r>>] # NoPiece
    /\ b[<<q, r>>][1] # friendly_color

CanCapture(b, q, r, friendly_color) == IsEnemy(b, q, r, friendly_color)

\* ------------------------------------------------------------------------
\* Move generation (move_validator.py, MoveValidator)
\* ------------------------------------------------------------------------

HEX_DIRECTIONS ==
    << <<1, 0>>, <<-1, 0>>, <<0, 1>>, <<0, -1>>, <<1, -1>>, <<-1, 1>> >>

DIAGONAL_DIRECTIONS ==
    << <<2, -1>>, <<-2, 1>>, <<1, 1>>, <<-1, -1>>, <<1, -2>>, <<-1, 2>> >>

PawnForwardDirs(color) ==
    IF color = "white"
    THEN << <<0, -1>>, <<1, -1>>, <<-1, 0>> >>
    ELSE << <<0, 1>>, <<-1, 1>>, <<1, 0>> >>

PawnCaptureDirs(color) ==
    IF color = "white"
    THEN << <<1, -2>>, <<-1, 1>>, <<1, 1>> >>
    ELSE << <<-1, 2>>, <<1, -1>>, <<-1, -1>> >>

\* The list that _get_knight_moves iterates (its second assignment).
KnightJumps ==
    << <<2, -1>>, <<-2, 1>>, <<1, -2>>, <<-1, 2>>,
       <<1, 1>>, <<-1, -1>>, <<2, 1>>, <<-2, -1>>,
       <<1, 2>>, <<-1, -2>>, <<3, -1>>, <<-3, 1>>,
       <<3, -2>>, <<-3, 2>>, <<2, -3>>, <<-2, 3>> >>

\* (q + dq, r + dr) for each (dq, dr) of dirs, in order.
Targets(q, r, dirs) ==
    [i \in 1..Len(dirs) |-> <<q + dirs[i][1], r + dirs[i][2]>>]

GetPawnMoves(b, q, r, color) ==
    SelectSeq(Targets(q, r, PawnForwardDirs(color)),
              LAMBDA t : IsValidTile(t[1], t[2]) /\ IsEmpty(b, t[1], t[2]))
    \o
    SelectSeq(Targets(q, r, PawnCaptureDirs(color)),
              LAMBDA t : IsValidTile(t[1], t[2]) /\ CanCapture(b, t[1], t[2], color))

\* One step to an empty or enemy-occupied tile, for each offset of jumps.
StepMoves(b, q, r, color, jumps) ==
    SelectSeq(Targets(q, r, jumps),
              LAMBDA t : /\ IsValidTile(t[1], t[2])
                         /\ \/ IsEmpty(b, t[1], t[2])
                            \/ CanCapture(b, t[1], t[2], color))

GetKnightMoves(b, q, r, color) == StepMoves(b, q, r, color, KnightJumps)

\* A ray that goes on behind the enemy piece it captures.
RECURSIVE RayPastCapture(_, _, _, _, _, _)
RayPastCapture(b, cq, cr, dq, dr, color) ==
    IF ~IsValidTile(cq, cr) THEN << >>
    ELSE IF IsEmpty(b, cq, cr) \/ CanCapture(b, cq, cr, color)
         THEN << <<cq, cr>> >> \o RayPastCapture(b, cq + dq, cr + dr, dq, dr, color)
         ELSE << >>

\* The while loop of _get_sliding_moves for one direction, from (cq, cr).
RECURSIVE Ray(_, _, _, _, _, _)
Ray(b, cq, cr, dq, dr, color) ==
    IF ~IsValidTile(cq, cr) THEN << >>
    ELSE IF IsEmpty(b, cq, cr)
         THEN << <<cq, cr>> >> \o Ray(b, cq + dq, cr + dr, dq, dr, color)
         ELSE IF CanCapture(b, cq, cr, color) THEN << <<cq, cr>> >> ELSE << >>

GetSlidingMoves(b, q, r, color, directions) ==
    Concat([i \in 1..Len(directions) |->
              Ray(b, q + directions[i][1], r + directions[i][2],
                  directions[i][1], directions[i][2], color)])

\* A bishop that slides along the edge directions.
GetBishopMovesAlongEdges(b, q, r, color) ==
    GetSlidingMoves(b, q, r, color, HEX_DIRECTIONS)

GetBishopMoves(b, q, r, color) ==
    GetSlidingMoves(b, q, r, color, DIAGONAL_DIRECTIONS)

GetRookMoves(b, q, r, color) ==
    GetSlidingMoves(b, q, r, color, HEX_DIRECTIONS)

GetQueenMoves(b, q, r, color) ==
    GetSlidingMoves(b, q, r, color, HEX_DIRECTIONS \o DIAGONAL_DIRECTIONS)

GetKingMoves(b, q, r, color) ==
    StepMoves(b, q, r, color, HEX_DIRECTIONS \o DIAGONAL_DIRECTIONS)

\* The dispatch of get_legal_moves on the piece name.
PieceMoves(b, q, r) ==
    LET color == b[<<q, r>>][1]
        name == b[<<q, r>>][2]
    IN  CASE name = "pawn" -> GetPawnMoves(b, q, r, color)
          [] name = "knight" -> GetKnightMoves(b, q, r, color)
          [] name = "bishop" -> GetBishopMoves(b, q, r, color)
          [] name = "rook" -> GetRookMoves(b, q, r, color)
          [] name = "queen" -> GetQueenMoves(b, q, r, color)
          [] name = "king" -> GetKingMoves(b, q, r, color)
          [] OTHER -> << >>

\* A get_legal_moves that lists the moves of a piece of either colour.
GetLegalMovesAnyTurn(b, turn, q, r) ==
    IF ~IsValidTile(q, r) \/ b[<<q, r>>] = NoPiece THEN << >>
    ELSE PieceMoves(b, q, r)

\* get_legal_moves(q, r) of a generator whose current_turn is turn.
GetLegalMoves(b, turn, q, r) ==
    IF ~IsValidTile(q, r) \/ b[<<q, r>>] = NoPiece THEN << >>
    ELSE IF b[<<q, r>>][1] # turn THEN << >>
    ELSE PieceMoves(b, q, r)

SeqToSet(s) == {s[i] : i \in DOMAIN s}

\* ------------------------------------------------------------------------
\* State
\* ------------------------------------------------------------------------

VARIABLES
    board,           \* tile -> piece: every HexTile.piece of the HexBoard
    current_turn,    \* board.current_turn
    val_turn,        \* MoveValidator.current_turn
    best_move,       \* HexChessEngine.best_move
    nodes_searched,  \* HexChessEngine.nodes_searched
    pc,              \* where get_best_move stands: idle, loop, search, done
    stack,           \* the active _minimax_root/_minimax/_quiescence_search calls
    returning,       \* TRUE while a call's return value awaits its caller
    retval,          \* that return value
    cur_depth,       \* current_depth of the iterative-deepening loop
    max_depth,       \* the depth argument
    clock,           \* elapsed time: 0 within 0.9 * limit, 1 within limit, 2 past it
    outcome,         \* how get_best_move ended: returned, or an escaped exception
    result,          \* the move get_best_move returned
    minimax_entries, \* _minimax calls entered during the call of get_best_move
    quiescence_entries, \* _quiescence_search calls entered during it
    entry_board,     \* the tiles at the entry of get_best_move
    entry_turn,      \* board.current_turn at the entry of get_best_move
    completed_best,  \* best move of the last completed iteration
    completed_iters, \* number of completed iterations
    timeout_iter,    \* iteration in which TimeoutError was raised, 0 if none
    phase,           \* make/undo probe: base, made, undone
    saved,           \* the (piece, captured) pair _make_move returned
    base_board,      \* the tiles before the last make or move_piece
    base_turn,       \* board.current_turn before the last make
    last_move,       \* the last move made or requested
    move_ok,         \* what move_piece returned
    plies,           \* number of moves kept on the board
    gen_done,        \* a move list has been generated
    gen_cell,        \* the cell it was generated for
    gen_moves,       \* the list get_legal_moves returned
    setup_calls,     \* number of setup_initial_board calls made
    place_calls,     \* number of place_piece calls made
    place_req,       \* the cell of the last place_piece call
    place_ok,        \* what that call returned
    eval_done,       \* evaluate_position has been called on the board
    eval_score,      \* what evaluate_position returned
    eval_locals,     \* the locals of evaluate_position when it returned
    calls,           \* number of get_best_move calls made on the engine
    move_gen,        \* 0: self.move_gen is None; n: built on the board of call n
    bound_board,     \* the tiles of the earlier call's board move_gen is built on
    bound_turn       \* current_turn of that board

boardVars == <<board, current_turn, val_turn>>

engineVars ==
    <<best_move, nodes_searched, pc, stack, returning, retval, cur_depth,
      max_depth, clock, outcome, result, minimax_entries, quiescence_entries>>

histVars ==
    <<entry_board, entry_turn, completed_best, completed_iters, timeout_iter>>

probeVars == <<phase, saved, base_board, base_turn, last_move, move_ok, plies>>

genVars == <<gen_done, gen_cell, gen_moves>>

setupVars == <<setup_calls, place_calls, place_req, place_ok>>

evalVars == <<eval_done, eval_score, eval_locals>>

reuseVars == <<calls, move_gen, bound_board, bound_turn>>

vars ==
    <<boardVars, engineVars, histVars, probeVars, genVars, setupVars, evalVars,
      reuseVars>>

NoMove == << >>

NoCell == << >>

\* HexChessEngine.__init__, with no call of get_best_move in progress.
EngineInit ==
    /\ best_move = NoMove
    /\ nodes_searched = 0
    /\ pc = "idle"
    /\ stack = << >>
    /\ returning = FALSE
    /\ retval = 0
    /\ cur_depth = 0
    /\ max_depth = 0
    /\ clock = 0
    /\ outcome = "none"
    /\ result = NoMove
    /\ minimax_entries = 0
    /\ quiescence_entries = 0

HistInit ==
    /\ entry_board = EmptyBoard
    /\ entry_turn = "white"
    /\ completed_best = NoMove
    /\ completed_iters = 0
    /\ timeout_iter = 0

ProbeInit ==
    /\ phase = "base"
    /\ saved = <<NoPiece, NoPiece>>
    /\ base_board = EmptyBoard
    /\ base_turn = "white"
    /\ last_move = NoMove
    /\ move_ok = FALSE
    /\ plies = 0

GenInit ==
    /\ gen_done = FALSE
    /\ gen_cell = NoCell
    /\ gen_moves = << >>

\* HexChessEngine.__init__: no call made, move_gen and move_validator None.
ReuseVarsInit ==
    /\ calls = 0
    /\ move_gen = 0
    /\ bound_board = EmptyBoard
    /\ bound_turn = "white"

\* evaluate_position not called yet.
EvalVarsInit ==
    /\ eval_done = FALSE
    /\ eval_score = 0
    /\ eval_locals = [game_status |-> "none", material_score |-> 0,
                      pst_score |-> 0, mobility_score |-> 0, check_score |-> 0]

\* No setup_initial_board and no place_piece call made yet.
SetupVarsInit ==
    /\ setup_calls = 0
    /\ place_calls = 0
    /\ place_req = NoCell
    /\ place_ok = FALSE

\* ------------------------------------------------------------------------
\* Move lists of single pieces: get_legal_moves on boards set up with
\* place_piece, a subject piece and a few pieces around it.
\* ------------------------------------------------------------------------

MaxOthers == 2

GenRadius == 3

SubjectCells == {<<0, 0>>, <<3, -5>>}

\* The tiles around cell c on which the other pieces are placed.
Near(c) ==
    {t \in Tiles : t # c /\ HexDistance(t[1] - c[1], t[2] - c[2]) <= GenRadius}

\* The subsets of S with at most n elements.
RECURSIVE SubsetsUpTo(_, _)
SubsetsUpTo(S, n) ==
    IF n = 0 THEN {{}}
    ELSE LET P == SubsetsUpTo(S, n - 1)
         IN  P \cup {X \cup {x} : X \in P, x \in S}

\* board.place_piece(q, r, color, piece_name)
PlacePiece(b, q, r, color, piece_name) ==
    IF IsValidTile(q, r)
    THEN [b EXCEPT ![<<q, r>>] = <<color, piece_name>>]
    ELSE b

\* What stands on the subject cell: a piece of either colour, or nothing.
SubjectPieces == (Colors \X PieceNames) \cup {NoPiece}

SubjectInit ==
    \E c \in SubjectCells, subject \in SubjectPieces :
        \E X \in SubsetsUpTo(Near(c), MaxOthers) :
            \E col \in [X -> Colors] :
                /\ board = [t \in Tiles |->
                              IF t = c THEN subject
                              ELSE IF t \in X THEN <<col[t], "pawn">>
                              ELSE NoPiece]
                /\ gen_cell = c
    /\ current_turn = "white"
    /\ val_turn = "white"
    /\ gen_done = FALSE
    /\ gen_moves = << >>
    /\ EngineInit /\ HistInit /\ ProbeInit /\ SetupVarsInit /\ EvalVarsInit /\ ReuseVarsInit

\* moves = validator.get_legal_moves(q, r)
Generate ==
    /\ ~gen_done
    /\ gen_moves' = GetLegalMoves(board, val_turn, gen_cell[1], gen_cell[2])
    /\ gen_done' = TRUE
    /\ UNCHANGED <<evalVars, reuseVars>>
    /\ UNCHANGED <<gen_cell, boardVars, engineVars, histVars, probeVars, setupVars>>

\* validator.switch_turn()
SwitchTurn ==
    /\ ~gen_done
    /\ val_turn' = Other(val_turn)
    /\ UNCHANGED <<evalVars, reuseVars>>
    /\ UNCHANGED <<board, current_turn, genVars, engineVars, histVars, probeVars,
                   setupVars>>

GenNext == Generate \/ SwitchTurn

SpecGen == SubjectInit /\ [][GenNext]_vars

\* The pawn offsets the specification calls canonical.
CanonicalPawnForward(color) ==
    IF color = "white" THEN <<0, -1>> ELSE <<0, 1>>

CanonicalPawnCaptures(color) ==
    IF color = "white" THEN {<<1, -1>>, <<-1, 0>>} ELSE {<<-1, 1>>, <<1, 0>>}

CanonicalPawnTargets(b, c, color) ==
    {t \in Tiles :
        \/ /\ <<t[1] - c[1], t[2] - c[2]>> = CanonicalPawnForward(color)
           /\ b[t] = NoPiece
        \/ /\ <<t[1] - c[1], t[2] - c[2]>> \in CanonicalPawnCaptures(color)
           /\ IsEnemy(b, t[1], t[2], color)}

\* C9: the move list of a pawn is its canonical one: the straight-ahead
\* cell (0,-1) for white, (0,+1) for black, when empty, and the two capture
\* cells (+1,-1),(-1,0) for white, (-1,+1),(+1,0) for black, when they hold
\* an enemy piece; nothing else.
C9_PawnMovesCanonical ==
    (gen_done /\ board[gen_cell] = <<val_turn, "pawn">>)
        => SeqToSet(gen_moves) = CanonicalPawnTargets(board, gen_cell, val_turn)

\* The twelve knight offsets of the specification.
CanonicalKnightOffsets ==
    {<<3, -1>>, <<3, -2>>, <<2, 1>>, <<1, 2>>, <<-1, 3>>, <<-2, 3>>,
     <<-3, 1>>, <<-3, 2>>, <<-2, -1>>, <<-1, -2>>, <<1, -3>>, <<2, -3>>}

CanonicalKnightTargets(b, c, color) ==
    {t \in Tiles :
        /\ <<t[1] - c[1], t[2] - c[2]>> \in CanonicalKnightOffsets
        /\ b[t][1] # color}

\* C10: the move list of a knight is exactly the on-board cells at the
\* twelve canonical offsets that hold no friendly piece.
C10_KnightMovesCanonical ==
    (gen_done /\ board[gen_cell] = <<val_turn, "knight">>)
        => SeqToSet(gen_moves) = CanonicalKnightTargets(board, gen_cell, val_turn)


\* The six orthogonal (edge) and the six diagonal (vertex) directions.
OrthogonalDirections ==
    {<<1, 0>>, <<1, -1>>, <<0, -1>>, <<-1, 0>>, <<-1, 1>>, <<0, 1>>}

DiagonalRayDirections ==
    {<<2, -1>>, <<1, -2>>, <<-1, -1>>, <<-2, 1>>, <<-1, 2>>, <<1, 1>>}

RayDirectionsOf(name) ==
    CASE name = "bishop" -> DiagonalRayDirections
      [] name = "rook" -> OrthogonalDirections
      [] name = "queen" -> OrthogonalDirections \cup DiagonalRayDirections
      [] OTHER -> {}

\* The cell k steps from c in direction d.
RayCell(c, d, k) == <<c[1] + k * d[1], c[2] + k * d[2]>>

\* The cells a slider of the given colour on c reaches: on a ray, behind
\* empty cells only, and itself empty or holding an enemy piece.
RayTargets(b, c, color, dirs) ==
    UNION {{RayCell(c, d, k) :
              k \in {n \in 1..(2 * BOARD_SIZE) :
                       /\ \A j \in 1..n : RayCell(c, d, j) \in Tiles
                       /\ \A j \in 1..(n - 1) : b[RayCell(c, d, j)] = NoPiece
                       /\ b[RayCell(c, d, n)][1] # color}} : d \in dirs}

\* C11: for bishop, rook and queen, along each of the piece's rays every
\* empty cell before the first occupied cell is a move, the first occupied
\* cell is a move iff it holds an enemy piece, and no cell behind the first
\* occupied cell or off the board is a move.
C11_SlidingMovesFollowRays ==
    (gen_done /\ board[gen_cell][1] = val_turn
              /\ board[gen_cell][2] \in {"bishop", "rook", "queen"})
        => SeqToSet(gen_moves)
             = RayTargets(board, gen_cell, val_turn, RayDirectionsOf(board[gen_cell][2]))

\* A list generated for a slider with an enemy piece on one ray, captured,
\* and a friendly piece on another, not a move.
C11_Witness ==
    /\ gen_done
    /\ board[gen_cell][1] = val_turn
    /\ board[gen_cell][2] \in {"bishop", "rook", "queen"}
    /\ \E t \in SeqToSet(gen_moves) : board[t][1] = Other(val_turn)
    /\ \E d \in RayDirectionsOf(board[gen_cell][2]) :
          /\ RayCell(gen_cell, d, 1) \in Tiles
          /\ board[RayCell(gen_cell, d, 1)][1] = val_turn
          /\ RayCell(gen_cell, d, 1) \notin SeqToSet(gen_moves)


\* C16: every move of a move list starts on a cell holding a piece of the
\* side to move and ends on a cell that holds no piece of the side to move;
\* the list of an empty cell and the list of a piece of the side not to move
\* are empty.
C16_MovesStartOwnEndNotOwn ==
    gen_done =>
        /\ \A i \in DOMAIN gen_moves :
              /\ board[gen_cell][1] = val_turn
              /\ gen_moves[i] \in Tiles
              /\ board[gen_moves[i]][1] # val_turn
        /\ board[gen_cell] = NoPiece => gen_moves = << >>
        /\ board[gen_cell][1] = Other(val_turn) => gen_moves = << >>

\* A list with a capture, generated for a piece that has a friendly piece
\* next to it.
C16_Witness ==
    /\ gen_done
    /\ board[gen_cell][1] = val_turn
    /\ \E i \in DOMAIN gen_moves : board[gen_moves[i]][1] = Other(val_turn)
    /\ \E t \in Near(gen_cell) : board[t][1] = val_turn

\* ------------------------------------------------------------------------
\* Make and undo (src/ai_engine.py) and king safety
\* ------------------------------------------------------------------------

\* The tiles after _make_move(board, from_q, from_r, to_q, to_r), m the
\* move (from_q, from_r, to_q, to_r).
MakeMove(b, m) ==
    [b EXCEPT ![<<m[3], m[4]>>] = b[<<m[1], m[2]>>],
              ![<<m[1], m[2]>>] = NoPiece]

\* An undo that forgets the captured piece.
UndoMoveDropsCaptured(b, m, piece, captured) ==
    [b EXCEPT ![<<m[1], m[2]>>] = piece,
              ![<<m[3], m[4]>>] = NoPiece]

\* The tiles after _undo_move(board, from_q, from_r, to_q, to_r, piece, captured).
UndoMove(b, m, piece, captured) ==
    [b EXCEPT ![<<m[1], m[2]>>] = piece,
              ![<<m[3], m[4]>>] = captured]

\* is_attacked(cell, by_color): some piece of by_color has cell among the
\* targets the generator gives it.
Attacked(b, cell, by_color) ==
    \E t \in Tiles :
        /\ b[t][1] = by_color
        /\ cell \in SeqToSet(PieceMoves(b, t[1], t[2]))

\* is_in_check(color)
InCheck(b, color) ==
    \E k \in Tiles : b[k] = <<color, "king">> /\ Attacked(b, k, Other(color))

\* MoveGenerator.get_legal_moves(q, r) of the engine's generator, which
\* reads the turn of the board it was built on.
MoveGenGetLegalMoves(b, turn, q, r) == GetLegalMoves(b, turn, q, r)

\* MoveValidator.simulate_move(q, r, to_q, to_r): the move does not leave
\* the mover's own king attacked.
SimulateMove(b, m) == ~InCheck(MakeMove(b, m), b[<<m[1], m[2]>>][1])

\* The moves of the piece on (q, r) that pass simulate_move, as 4-tuples.
LegalMovesFrom(b, turn, q, r) ==
    LET targets == MoveGenGetLegalMoves(b, turn, q, r)
        moves == [i \in 1..Len(targets) |-> <<q, r, targets[i][1], targets[i][2]>>]
    IN  SelectSeq(moves, LAMBDA m : SimulateMove(b, m))

\* _get_all_legal_moves(board, color)
GetAllLegalMoves(b, turn, color) ==
    Concat([i \in 1..Len(TileSeq) |->
              IF b[TileSeq[i]][1] = color
              THEN LegalMovesFrom(b, turn, TileSeq[i][1], TileSeq[i][2])
              ELSE << >>])

\* _get_capture_moves(board, color)
GetCaptureMoves(b, turn, color) ==
    SelectSeq(GetAllLegalMoves(b, turn, color),
              LAMBDA m : b[<<m[3], m[4]>>] # NoPiece)

\* _get_all_legal_moves(board, color) with self.move_gen and
\* self.move_validator built on the board gb, whose current_turn is gturn:
\* the tiles of board b are walked, the moves come from gb.
GetAllLegalMovesVia(b, gb, gturn, color) ==
    Concat([i \in 1..Len(TileSeq) |->
              IF b[TileSeq[i]][1] = color
              THEN LegalMovesFrom(gb, gturn, TileSeq[i][1], TileSeq[i][2])
              ELSE << >>])

\* A capture list that keeps the moves to empty cells as well.
GetCaptureMovesKeepingQuiet(b, gb, gturn, color) ==
    GetAllLegalMovesVia(b, gb, gturn, color)

\* _get_capture_moves(board, color) in the same way: the target tile is
\* looked up on b.
GetCaptureMovesVia(b, gb, gturn, color) ==
    SelectSeq(GetAllLegalMovesVia(b, gb, gturn, color),
              LAMBDA m : b[<<m[3], m[4]>>] # NoPiece)

\* Boards of a few pieces: the two kings on their initial cells and at most
\* MaxExtra of the pieces below.
MaxExtra == 2

KingsBoard ==
    PlacePiece(PlacePiece(EmptyBoard, 1, 4, "white", "king"), 1, -5, "black", "king")

ExtraPieces ==
    {<<1, 3, "white", "rook">>, <<1, 0, "black", "rook">>,
     <<0, 0, "white", "pawn">>, <<1, -1, "black", "knight">>,
     <<0, 2, "white", "knight">>, <<-1, 1, "black", "pawn">>,
     <<0, -4, "white", "pawn">>, <<0, 4, "black", "pawn">>}

BoardWith(S) ==
    [t \in Tiles |->
        IF \E e \in S : <<e[1], e[2]>> = t
        THEN LET e == CHOOSE e \in S : <<e[1], e[2]>> = t IN <<e[3], e[4]>>
        ELSE KingsBoard[t]]

SmallBoards == {BoardWith(S) : S \in SubsetsUpTo(ExtraPieces, MaxExtra)}

MaxPlies == 1

MovesInit ==
    /\ board \in SmallBoards
    /\ current_turn \in Colors
    /\ val_turn = "white"
    /\ EngineInit /\ HistInit /\ ProbeInit /\ GenInit /\ SetupVarsInit /\ EvalVarsInit /\ ReuseVarsInit

\* piece, captured = self._make_move(board, from_q, from_r, to_q, to_r), for
\* a move the generator lists for the side to move.
ProbeMake ==
    /\ phase \in {"base", "undone"}
    /\ \E t \in Tiles :
         \E to \in SeqToSet(GetLegalMoves(board, current_turn, t[1], t[2])) :
            LET m == <<t[1], t[2], to[1], to[2]>>
            IN  /\ saved' = <<board[t], board[to]>>
                /\ base_board' = board
                /\ base_turn' = current_turn
                /\ last_move' = m
                /\ board' = MakeMove(board, m)
    /\ current_turn' = Other(current_turn)
    /\ phase' = "made"
    /\ UNCHANGED <<evalVars, reuseVars>>
    /\ UNCHANGED <<val_turn, move_ok, plies, engineVars, histVars, genVars,
                   setupVars>>

\* self._undo_move(board, from_q, from_r, to_q, to_r, piece, captured)
ProbeUndo ==
    /\ phase = "made"
    /\ board' = UndoMove(board, last_move, saved[1], saved[2])
    /\ current_turn' = Other(current_turn)
    /\ phase' = "undone"
    /\ UNCHANGED <<evalVars, reuseVars>>
    /\ UNCHANGED <<val_turn, saved, base_board, base_turn, last_move, move_ok,
                   plies, engineVars, histVars, genVars, setupVars>>

\* The made move stays on the board and the other side moves next.
ProbeKeep ==
    /\ phase = "made"
    /\ plies < MaxPlies
    /\ plies' = plies + 1
    /\ phase' = "base"
    /\ UNCHANGED <<evalVars, reuseVars>>
    /\ UNCHANGED <<boardVars, saved, base_board, base_turn, last_move, move_ok,
                   engineVars, histVars, genVars, setupVars>>

MovesNext == ProbeMake \/ ProbeUndo \/ ProbeKeep

SpecMoves == MovesInit /\ [][MovesNext]_vars

\* C2: _make_move followed by _undo_move with the pair _make_move returned
\* gives back the board: every tile and the side to move are as before.
C2_MakeUndoRestores ==
    phase = "undone" => (board = base_board /\ current_turn = base_turn)

\* A capturing move was made and undone, on a board reached by another move.
C2_Witness ==
    phase = "undone" /\ saved[2] # NoPiece /\ plies = 1

\* The r of the opponent's back rank.
BackRank(color) == IF color = "white" THEN -(BOARD_SIZE - 1) ELSE BOARD_SIZE - 1

\* The last move made took a pawn onto the opponent's back rank.
PawnReachedBackRank ==
    /\ last_move # NoMove
    /\ saved[1][2] = "pawn"
    /\ last_move[4] = BackRank(saved[1][1])

\* C13: when a pawn is moved onto the opponent's back rank the piece
\* written to the destination is a queen of the pawn's colour, and undoing
\* the move puts a pawn back on the source cell.
C13_PawnPromotesOnBackRank ==
    /\ (phase = "made" /\ PawnReachedBackRank)
          => board[<<last_move[3], last_move[4]>>] = <<saved[1][1], "queen">>
    /\ (phase = "undone" /\ PawnReachedBackRank)
          => board[<<last_move[1], last_move[2]>>] = <<saved[1][1], "pawn">>

\* C7: no move of the legal move list leaves the mover's own king attacked.
C7_NoMoveLeavesKingAttacked ==
    phase = "made" => ~InCheck(board, base_turn)

\* ------------------------------------------------------------------------
\* The initial position (src/constants.py) and moves from the UI (main.py)
\* ------------------------------------------------------------------------

\* The place_piece calls of setup_initial_board, in order.
InitialPlacement ==
    << <<1, 4, "white", "king">>, <<-1, 5, "white", "queen">>, <<3, 2, "white", "rook">>,
       <<-3, 5, "white", "rook">>, <<2, 3, "white", "knight">>, <<-2, 5, "white", "knight">>,
       <<0, 5, "white", "bishop">>, <<0, 4, "white", "bishop">>, <<0, 3, "white", "bishop">>,
       <<-4, 5, "white", "pawn">>, <<-3, 4, "white", "pawn">>, <<-2, 3, "white", "pawn">>,
       <<-1, 2, "white", "pawn">>, <<0, 1, "white", "pawn">>, <<1, 1, "white", "pawn">>,
       <<2, 1, "white", "pawn">>, <<3, 1, "white", "pawn">>, <<4, 1, "white", "pawn">>,
       <<1, -5, "black", "king">>, <<-1, -4, "black", "queen">>, <<3, -5, "black", "rook">>,
       <<-3, -2, "black", "rook">>, <<2, -5, "black", "knight">>, <<-2, -3, "black", "knight">>,
       <<0, -5, "black", "bishop">>, <<0, -4, "black", "bishop">>, <<0, -3, "black", "bishop">>,
       <<4, -5, "black", "pawn">>, <<3, -4, "black", "pawn">>, <<2, -3, "black", "pawn">>,
       <<1, -2, "black", "pawn">>, <<0, -1, "black", "pawn">>, <<-1, -1, "black", "pawn">>,
       <<-2, -1, "black", "pawn">>, <<-3, -1, "black", "pawn">>, <<-4, -1, "black", "pawn">> >>

RECURSIVE PlaceAll(_, _)
PlaceAll(b, ps) ==
    IF Len(ps) = 0 THEN b
    ELSE PlaceAll(PlacePiece(b, Head(ps)[1], Head(ps)[2], Head(ps)[3], Head(ps)[4]),
                  Tail(ps))

\* A setup that places the pieces without clearing the tiles first.
SetupWithoutClear(b) == PlaceAll(b, InitialPlacement)

\* The tiles after setup_initial_board(board): every tile cleared, then the
\* pieces placed.
SetupInitialBoard(b) == PlaceAll([t \in DOMAIN b |-> NoPiece], InitialPlacement)

\* The tiles after board.move_piece(from_q, from_r, to_q, to_r).
MovePieceAccepted(b, from, to) ==
    /\ from \in Tiles
    /\ to \in Tiles
    /\ b[from] # NoPiece
    /\ from # to

MovePiece(b, from, to) ==
    IF MovePieceAccepted(b, from, to)
    THEN [b EXCEPT ![to] = b[from], ![from] = NoPiece]
    ELSE b

MaxUserMoves == 1

PlayInit ==
    /\ board = SetupInitialBoard(EmptyBoard)
    /\ current_turn = "white"
    /\ val_turn = "white"
    /\ EngineInit /\ HistInit /\ ProbeInit /\ GenInit /\ SetupVarsInit /\ EvalVarsInit /\ ReuseVarsInit

\* The main loop drops the dragged piece: board.move_piece(selected, hovered).
UserMove ==
    /\ plies < MaxUserMoves
    /\ \E from \in Tiles, to \in Tiles :
        /\ last_move' = <<from[1], from[2], to[1], to[2]>>
        /\ move_ok' = MovePieceAccepted(board, from, to)
        /\ board' = MovePiece(board, from, to)
    /\ base_board' = board
    /\ plies' = plies + 1
    /\ UNCHANGED <<evalVars, reuseVars>>
    /\ UNCHANGED <<current_turn, val_turn, phase, saved, base_turn,
                   engineVars, histVars, genVars, setupVars>>

PlayNext == UserMove

SpecPlay == PlayInit /\ [][PlayNext]_vars

\* validator.is_legal_move(from_q, from_r, to_q, to_r) on board b
IsLegalMove(b, turn, m) ==
    <<m[3], m[4]>> \in SeqToSet(GetLegalMoves(b, turn, m[1], m[2]))

\* C6: a requested move is applied only if it is in the legal move list of
\* its source cell; any other request returns false and changes no tile.
C6_OnlyLegalMovesApplied ==
    last_move # NoMove =>
        /\ move_ok => IsLegalMove(base_board, val_turn, last_move)
        /\ ~IsLegalMove(base_board, val_turn, last_move)
              => (~move_ok /\ board = base_board)

KingCount(b, color) == Cardinality({t \in Tiles : b[t] = <<color, "king">>})

\* C8: every board reached from the initial position by applied moves
\* holds exactly one white king and exactly one black king.
C8_OneKingOfEachColor ==
    KingCount(board, "white") = 1 /\ KingCount(board, "black") = 1

\* ------------------------------------------------------------------------
\* Board construction and setup: HexBoard(6, _), place_piece on any
\* coordinate, setup_initial_board, then move lists of the position set up.
\* ------------------------------------------------------------------------

MaxPlacements == 1

MaxSetups == 2

\* The coordinates place_piece is called with: the rim of the board, the
\* ring around it, what lies further out in the bounding square, and the
\* centre.
PlaceCoords ==
    {c \in (-BOARD_SIZE..BOARD_SIZE) \X (-BOARD_SIZE..BOARD_SIZE) :
        Max2(Max2(Abs(c[1]), Abs(c[2])), Abs(c[1] + c[2])) >= BOARD_SIZE - 1}
    \cup {<<0, 0>>}

\* HexBoard(BOARD_SIZE, _): every tile empty; the side to move is whatever
\* the caller left.
SetupInit ==
    /\ board = EmptyBoard
    /\ current_turn \in Colors
    /\ val_turn = "white"
    /\ EngineInit /\ HistInit /\ ProbeInit /\ GenInit /\ SetupVarsInit /\ EvalVarsInit /\ ReuseVarsInit

\* board.place_piece(q, r, color, "pawn") on a board not yet set up.
PlaceAt ==
    /\ setup_calls = 0
    /\ place_calls < MaxPlacements
    /\ \E c \in PlaceCoords, color \in Colors :
        /\ board' = PlacePiece(board, c[1], c[2], color, "pawn")
        /\ place_req' = c
        /\ place_ok' = IsValidTile(c[1], c[2])
    /\ place_calls' = place_calls + 1
    /\ base_board' = board
    /\ UNCHANGED <<evalVars, reuseVars>>
    /\ UNCHANGED <<current_turn, val_turn, setup_calls, phase, saved, base_turn,
                   last_move, move_ok, plies, engineVars, histVars, genVars>>

\* setup_initial_board(board)
Setup ==
    /\ setup_calls < MaxSetups
    /\ board' = SetupInitialBoard(board)
    /\ current_turn' = "white"
    /\ setup_calls' = setup_calls + 1
    /\ place_calls' = place_calls + Len(InitialPlacement)
    /\ LET last == InitialPlacement[Len(InitialPlacement)]
       IN  /\ place_req' = <<last[1], last[2]>>
           /\ place_ok' = IsValidTile(last[1], last[2])
    /\ base_board' = board
    /\ UNCHANGED <<evalVars, reuseVars>>
    /\ UNCHANGED <<val_turn, phase, saved, base_turn, last_move, move_ok, plies,
                   engineVars, histVars, genVars>>

\* MoveValidator(board).get_legal_moves(q, r) on the position set up.
GenerateAt ==
    /\ setup_calls >= 1
    /\ ~gen_done
    /\ \E c \in Tiles :
        /\ gen_cell' = c
        /\ gen_moves' = GetLegalMoves(board, val_turn, c[1], c[2])
    /\ gen_done' = TRUE
    /\ UNCHANGED <<evalVars, reuseVars>>
    /\ UNCHANGED <<boardVars, engineVars, histVars, probeVars, setupVars>>

SetupNext == PlaceAt \/ Setup \/ GenerateAt \/ SwitchTurn

SpecSetup == SetupInit /\ [][SetupNext]_vars

\* C12 as stated: in the initial position with White to move the white
\* bishop on (0,3) has no move at all.
C12_BishopHasNoMove ==
    (gen_done /\ setup_calls >= 1 /\ gen_cell = <<0, 3>> /\ val_turn = "white")
        => Len(gen_moves) = 0

\* C12, amended: in the initial position with White to move the white
\* bishop on (0,3) has exactly the two moves (2,2) and (-2,4); its four other
\* diagonal rays are blocked at the first step by a friendly piece.
C12_BishopHasTwoMoves ==
    (gen_done /\ setup_calls >= 1 /\ gen_cell = <<0, 3>> /\ val_turn = "white")
        => /\ SeqToSet(gen_moves) = {<<2, 2>>, <<-2, 4>>}
           /\ Len(gen_moves) = 2
           /\ \A d \in DiagonalRayDirections \ {<<2, -1>>, <<-2, 1>>} :
                 board[RayCell(gen_cell, d, 1)][1] = "white"

C12_Witness ==
    /\ gen_done
    /\ setup_calls >= 1
    /\ gen_cell = <<0, 3>>
    /\ val_turn = "white"
    /\ board[gen_cell] = <<"white", "bishop">>

\* The cells of the canonical setup, by colour and kind.
GlinskiCells(color, name) ==
    IF color = "white"
    THEN CASE name = "king" -> {<<1, 4>>}
           [] name = "queen" -> {<<-1, 5>>}
           [] name = "rook" -> {<<3, 2>>, <<-3, 5>>}
           [] name = "knight" -> {<<2, 3>>, <<-2, 5>>}
           [] name = "bishop" -> {<<0, 3>>, <<0, 4>>, <<0, 5>>}
           [] name = "pawn" -> {<<-4, 5>>, <<-3, 4>>, <<-2, 3>>, <<-1, 2>>, <<0, 1>>,
                                <<1, 1>>, <<2, 1>>, <<3, 1>>, <<4, 1>>}
    ELSE CASE name = "king" -> {<<1, -5>>}
           [] name = "queen" -> {<<-1, -4>>}
           [] name = "rook" -> {<<3, -5>>, <<-3, -2>>}
           [] name = "knight" -> {<<2, -5>>, <<-2, -3>>}
           [] name = "bishop" -> {<<0, -3>>, <<0, -4>>, <<0, -5>>}
           [] name = "pawn" -> {<<4, -5>>, <<3, -4>>, <<2, -3>>, <<1, -2>>, <<0, -1>>,
                                <<-1, -1>>, <<-2, -1>>, <<-3, -1>>, <<-4, -1>>}

CellsHolding(b, color, name) == {t \in Tiles : b[t] = <<color, name>>}

\* C14: setup_initial_board, called on a board in any state, leaves exactly
\* the 36 pieces of the canonical setup on their cells (per colour 1 king,
\* 1 queen, 2 rooks, 2 knights, 3 bishops, 9 pawns), every other cell empty
\* and White to move; a second call gives the same board as the first.
C14_SetupGivesCanonicalPosition ==
    setup_calls >= 1 =>
        /\ \A color \in Colors, name \in PieceNames :
              CellsHolding(board, color, name) = GlinskiCells(color, name)
        /\ Cardinality({t \in Tiles : board[t] # NoPiece}) = 36
        /\ \A color \in Colors :
              Cardinality({t \in Tiles : board[t][1] = color}) = 18
        /\ current_turn = "white"
        /\ setup_calls >= 2 => board = base_board

\* A first setup that cleared a piece standing on a cell the setup leaves
\* empty.
C14_Witness ==
    /\ setup_calls = 1
    /\ \E t \in Tiles : base_board[t] # NoPiece /\ board[t] = NoPiece

\* The coordinates within BOARD_SIZE - 1 steps of the centre.
HexagonCells ==
    {c \in (-2 * BOARD_SIZE..2 * BOARD_SIZE) \X (-2 * BOARD_SIZE..2 * BOARD_SIZE) :
        Max2(Max2(Abs(c[1]), Abs(c[2])), Abs(c[1] + c[2])) <= BOARD_SIZE - 1}

\* C15: the tiles of HexBoard(6, _) are exactly the coordinates with
\* max(|q|, |r|, |q+r|) <= 5, 91 of them; place_piece succeeds on exactly
\* these and on any other coordinate returns False and changes no tile.
C15_TilesAreTheHexagon ==
    /\ Tiles = HexagonCells
    /\ Cardinality(Tiles) = 91
    /\ DOMAIN board = HexagonCells
    /\ (place_req # NoCell /\ setup_calls = 0) =>
          /\ place_ok <=> place_req \in HexagonCells
          /\ ~place_ok => board = base_board
          /\ place_ok => board[place_req] # NoPiece

\* place_piece refused a coordinate of the bounding rhombus that is not on
\* the board.
C15_Witness ==
    /\ place_req # NoCell
    /\ setup_calls = 0
    /\ ~place_ok
    /\ Abs(place_req[1]) < BOARD_SIZE
    /\ Abs(place_req[2]) < BOARD_SIZE

\* ------------------------------------------------------------------------
\* Evaluation (src/evaluation.py)
\* ------------------------------------------------------------------------

\* PIECE_VALUES.get(name, 0)
PieceValue(name) ==
    CASE name = "pawn" -> 100
      [] name = "knight" -> 320
      [] name = "bishop" -> 330
      [] name = "rook" -> 500
      [] name = "queen" -> 900
      [] name = "king" -> 20000
      [] OTHER -> 0

\* s[1] + ... + s[n]
RECURSIVE SumTo(_, _)
SumTo(s, n) == IF n = 0 THEN 0 ELSE s[n] + SumTo(s, n - 1)

\* The sum over board.tiles of value(tile), value a function on tiles.
SumOverTiles(value) ==
    SumTo([i \in 1..Len(TileSeq) |-> value[TileSeq[i]]], Len(TileSeq))

\* The tables built by _initialize_tables, as functions of the cell.
PawnTable(q, r) ==
    (IF Abs(q) <= 1 THEN 10 ELSE IF Abs(q) <= 2 THEN 5 ELSE 0)
    + (IF HexDistance(q, r) >= BOARD_SIZE - 1 THEN -10 ELSE 0)

KnightTable(q, r) ==
    LET dist == HexDistance(q, r)
    IN  IF dist <= 1 THEN 40
        ELSE IF dist <= 2 THEN 20
        ELSE IF dist <= 3 THEN 0
        ELSE IF dist <= 4 THEN -20
        ELSE -40

BishopTable(q, r) ==
    LET dist == HexDistance(q, r)
    IN  (IF dist <= 1 THEN 25
         ELSE IF dist <= 2 THEN 15
         ELSE IF dist <= 3 THEN 5
         ELSE -5)
        + (IF Abs(q - r) <= 1 THEN 10 ELSE 0)

RookTable(q, r) ==
    (IF HexDistance(q, r) <= 2 THEN 10 ELSE 0)
    + (IF Abs(q) <= 1 THEN 10 ELSE 0)
    + (IF Abs(r) <= 1 THEN 10 ELSE 0)

QueenTable(q, r) ==
    LET dist == HexDistance(q, r)
    IN  IF dist <= 1 THEN 15
        ELSE IF dist <= 2 THEN 10
        ELSE IF dist <= 3 THEN 5
        ELSE -10

KingOpeningTable(q, r) ==
    LET dist == HexDistance(q, r)
    IN  IF dist >= 4 THEN 30 ELSE IF dist >= 3 THEN 10 ELSE -20

KingEndgameTable(q, r) ==
    LET dist == HexDistance(q, r)
    IN  IF dist <= 1 THEN 40
        ELSE IF dist <= 2 THEN 20
        ELSE IF dist <= 3 THEN 0
        ELSE -20

\* HexPieceSquareTables.get_value(piece_name, q, r, piece_color, is_endgame)
PstGetValue(piece_name, q, r, piece_color, is_endgame) ==
    LET table ==
            CASE piece_name = "king" ->
                    IF is_endgame THEN KingEndgameTable(q, r)
                    ELSE KingOpeningTable(q, r)
              [] piece_name = "pawn" -> PawnTable(q, r)
              [] piece_name = "knight" -> KnightTable(q, r)
              [] piece_name = "bishop" -> BishopTable(q, r)
              [] piece_name = "rook" -> RookTable(q, r)
              [] piece_name = "queen" -> QueenTable(q, r)
        advancement_bonus ==
            IF piece_name # "pawn" THEN 0
            ELSE IF piece_color = "white" THEN Max2(0, -r * 5)
            ELSE Max2(0, r * 5)
        base_value == table + advancement_bonus
    IN  IF piece_color = "black" THEN -base_value ELSE base_value

\* count_material(board)[0][color]
Material(b, color) ==
    SumOverTiles([t \in Tiles |->
                    IF b[t][1] = color THEN PieceValue(b[t][2]) ELSE 0])

\* Evaluator.is_endgame(piece_count)
IsEndgame(b) ==
    \/ ~\E t \in Tiles : b[t][2] = "queen"
    \/ Cardinality({t \in Tiles : b[t] # NoPiece}) < 12

\* The "PST bonuses" loop of evaluate_position.
PstScore(b) ==
    LET is_endgame == IsEndgame(b)
    IN  SumOverTiles([t \in Tiles |->
                        IF b[t] = NoPiece THEN 0
                        ELSE PstGetValue(b[t][2], t[1], t[2], b[t][1], is_endgame)])

\* Mobility counted by a generator that always takes White to be on move.
CountMobilityWhiteOnMove(b, turn, color) ==
    SumOverTiles([t \in Tiles |->
                    IF b[t][1] = color
                    THEN Len(MoveGenGetLegalMoves(b, "white", t[1], t[2]))
                    ELSE 0])

\* Evaluator._count_mobility(board, color)
CountMobility(b, turn, color) ==
    SumOverTiles([t \in Tiles |->
                    IF b[t][1] = color
                    THEN Len(MoveGenGetLegalMoves(b, turn, t[1], t[2]))
                    ELSE 0])

\* MoveValidator.get_game_status() of a validator built on the board.
GetGameStatus(b, turn) ==
    IF Len(GetAllLegalMoves(b, turn, turn)) = 0
    THEN IF InCheck(b, turn) THEN "checkmate" ELSE "stalemate"
    ELSE IF InCheck(b, turn) THEN "check" ELSE "in_progress"

\* The score of a position that is neither checkmate nor stalemate.
StaticScore(b, turn) ==
    (Material(b, "white") - Material(b, "black"))
    + PstScore(b)
    + (CountMobility(b, turn, "white") - CountMobility(b, turn, "black")) * 2
    + (IF InCheck(b, "white") THEN -50 ELSE 0)
    + (IF InCheck(b, "black") THEN 50 ELSE 0)

\* evaluate_position without its game-over branch.
EvaluateWithoutTerminal(b, turn) == StaticScore(b, turn)

\* Evaluator.evaluate_position(board), turn being board.current_turn.
EvaluatePosition(b, turn) ==
    LET game_status == GetGameStatus(b, turn)
    IN  IF game_status = "checkmate"
        THEN IF turn = "white" THEN -100000 ELSE 100000
        ELSE IF game_status = "stalemate" THEN 0
        ELSE StaticScore(b, turn)

\* ------------------------------------------------------------------------
\* Search (src/ai_engine.py)
\* ------------------------------------------------------------------------

\* float('inf') and float('-inf'): beyond every score.
PosInf == 1000000000

NegInf == -1000000000

\* The quiescence depth _minimax passes at a leaf.
QuiescenceDepth == 2

\* move_score(move) of _order_moves
MoveScore(b, m) ==
    IF b[<<m[3], m[4]>>] # NoPiece
    THEN PieceValue(b[<<m[3], m[4]>>][2]) * 10 - PieceValue(b[<<m[1], m[2]>>][2])
    ELSE 0

\* m put into s, which is sorted by descending score, behind every move
\* whose score is at least its own.
RECURSIVE InsertByScore(_, _, _)
InsertByScore(b, s, m) ==
    IF Len(s) = 0 THEN <<m>>
    ELSE IF MoveScore(b, Head(s)) >= MoveScore(b, m)
         THEN <<Head(s)>> \o InsertByScore(b, Tail(s), m)
         ELSE <<m>> \o s

RECURSIVE OrderMovesUpTo(_, _, _)
OrderMovesUpTo(b, moves, n) ==
    IF n = 0 THEN << >>
    ELSE InsertByScore(b, OrderMovesUpTo(b, moves, n - 1), moves[n])

\* _order_moves(board, moves): sorted(moves, key=move_score, reverse=True)
OrderMoves(b, moves) == OrderMovesUpTo(b, moves, Len(moves))

\* One active call of _minimax_root, _minimax or _quiescence_search: its
\* arguments and locals. stage is entry (called, body not yet run), loop
\* (about to take moves[idx]) or wait (moves[idx] is made and searched).
NewFrame(fn, depth, alpha, beta, is_maximizing) ==
    [fn |-> fn, depth |-> depth, alpha |-> alpha, beta |-> beta,
     is_maximizing |-> is_maximizing, moves |-> << >>, idx |-> 0, best |-> 0,
     best_mv |-> NoMove, piece |-> NoPiece, captured |-> NoPiece,
     stage |-> "entry"]

Top == stack[Len(stack)]

Pop(st) == SubSeq(st, 1, Len(st) - 1)

ReplaceTop(st, f) == [st EXCEPT ![Len(st)] = f]

ColorOf(is_maximizing) == IF is_maximizing THEN "white" ELSE "black"

MaxDepth == 2

\* The boards get_best_move is called on.
SearchPieces ==
    { {<<1, 4, "white", "king">>, <<1, -5, "black", "king">>,
       <<0, 0, "white", "pawn">>, <<1, -1, "black", "knight">>},
      {<<1, 4, "white", "king">>, <<1, -5, "black", "king">>,
       <<1, 3, "white", "rook">>, <<1, 0, "black", "rook">>},
      {<<5, -5, "white", "king">>, <<3, -3, "black", "king">>,
       <<1, -5, "black", "queen">>},
      {<<5, -5, "white", "king">>, <<3, -3, "black", "king">>,
       <<-5, 5, "black", "queen">>},
      {<<-5, 5, "white", "king">>, <<5, -5, "black", "king">>,
       <<2, -2, "white", "rook">>, <<-2, 1, "white", "rook">>,
       <<-2, 3, "black", "knight">>} }

SearchBoards ==
    {[t \in Tiles |->
        IF \E e \in S : <<e[1], e[2]>> = t
        THEN LET e == CHOOSE e \in S : <<e[1], e[2]>> = t IN <<e[3], e[4]>>
        ELSE NoPiece] : S \in SearchPieces}

Init ==
    /\ board \in SearchBoards
    /\ current_turn \in Colors
    /\ val_turn = "white"
    /\ EngineInit /\ HistInit /\ ProbeInit /\ GenInit /\ SetupVarsInit /\ EvalVarsInit /\ ReuseVarsInit

othersVars == <<val_turn, probeVars, genVars, setupVars, evalVars>>

countVars == <<minimax_entries, quiescence_entries>>

\* The board that self.move_gen and self.move_validator read: the board of
\* this call when they are built in it (or about to be), else the board
\* of the earlier call they were built in.
GenBoard == IF move_gen \in {0, calls} THEN board ELSE bound_board

GenTurn == IF move_gen \in {0, calls} THEN current_turn ELSE bound_turn

\* get_best_move(board, depth, time_limit), up to the loop.
CallGetBestMove ==
    /\ pc = "idle"
    /\ \E depth \in 1..MaxDepth : max_depth' = depth
    /\ clock' = 0
    /\ nodes_searched' = 0
    /\ best_move' = NoMove
    /\ cur_depth' = 1
    /\ pc' = "loop"
    /\ entry_board' = board
    /\ entry_turn' = current_turn
    /\ UNCHANGED <<board, current_turn, stack, returning, retval, outcome, result,
                   completed_best, completed_iters, timeout_iter, othersVars>>
    /\ minimax_entries' = 0
    /\ quiescence_entries' = 0
    /\ calls' = calls + 1
    /\ UNCHANGED <<move_gen, bound_board, bound_turn>>

\* Time passes while get_best_move runs.
Tick ==
    /\ pc \in {"loop", "search"}
    /\ clock < 2
    /\ clock' = clock + 1
    /\ UNCHANGED <<board, current_turn, best_move, nodes_searched, pc, stack,
                   returning, retval, cur_depth, max_depth, outcome, result,
                   histVars, othersVars, reuseVars>>
    /\ UNCHANGED countVars

\* return self.best_move
ReturnBestMove ==
    /\ result' = best_move
    /\ outcome' = "returned"
    /\ pc' = "done"
    /\ stack' = << >>
    /\ returning' = FALSE

\* The loop is over, or the elapsed time is above 0.9 * time_limit.
LoopExit ==
    /\ pc = "loop"
    /\ cur_depth > max_depth \/ clock >= 1
    /\ ReturnBestMove
    /\ UNCHANGED <<board, current_turn, best_move, nodes_searched, retval,
                   cur_depth, max_depth, clock, histVars, othersVars, reuseVars>>
    /\ UNCHANGED countVars

\* score = self._minimax_root(board, current_depth), up to its loop.
CallMinimaxRoot ==
    /\ pc = "loop"
    /\ cur_depth <= max_depth
    /\ clock = 0
    /\ LET is_maximizing == (current_turn = "white")
           moves == OrderMoves(board,
                               GetAllLegalMovesVia(board, GenBoard, GenTurn,
                                                   current_turn))
       IN  stack' = <<[NewFrame("root", cur_depth, NegInf, PosInf, is_maximizing)
                         EXCEPT !.moves = moves, !.idx = 1, !.stage = "loop",
                                !.best = IF is_maximizing THEN NegInf ELSE PosInf]>>
    /\ pc' = "search"
    /\ move_gen' = IF move_gen = 0 THEN calls ELSE move_gen
    /\ UNCHANGED <<board, current_turn, best_move, nodes_searched, returning,
                   retval, cur_depth, max_depth, clock, outcome, result,
                   histVars, othersVars, calls, bound_board, bound_turn>>
    /\ UNCHANGED countVars

\* except TimeoutError: break, then return self.best_move. Every call on
\* the stack is abandoned where it stands.
TimeoutCaught ==
    /\ timeout_iter' = cur_depth
    /\ ReturnBestMove
    /\ UNCHANGED <<board, current_turn, best_move, retval, cur_depth, max_depth,
                   clock, entry_board, entry_turn, completed_best,
                   completed_iters, othersVars, reuseVars>>

\* The deadline check at the head of the root loop fails.
RootTimeout ==
    /\ pc = "search" /\ ~returning
    /\ Top.fn = "root" /\ Top.stage = "loop"
    /\ Top.idx <= Len(Top.moves)
    /\ clock = 2
    /\ TimeoutCaught
    /\ UNCHANGED nodes_searched
    /\ UNCHANGED countVars

\* A make-and-call whose _make_move leaves board.current_turn alone.
MakeAndCallKeepingTurn(f, child) ==
    LET m == f.moves[f.idx]
    IN  /\ board' = MakeMove(board, m)
        /\ current_turn' = current_turn
        /\ stack' = Append(ReplaceTop(stack,
                              [f EXCEPT !.stage = "wait",
                                        !.piece = board[<<m[1], m[2]>>],
                                        !.captured = board[<<m[3], m[4]>>]]),
                           child)

\* The move under way is made, saved in the frame f, and the call child
\* is entered.
MakeAndCall(f, child) ==
    LET m == f.moves[f.idx]
    IN  /\ board' = MakeMove(board, m)
        /\ current_turn' = Other(current_turn)
        /\ stack' = Append(ReplaceTop(stack,
                              [f EXCEPT !.stage = "wait",
                                        !.piece = board[<<m[1], m[2]>>],
                                        !.captured = board[<<m[3], m[4]>>]]),
                           child)

searchRest ==
    <<best_move, returning, retval, cur_depth, max_depth, clock, outcome,
      result, histVars, othersVars, reuseVars>>

\* The root loop makes its next move and calls _minimax.
RootDescend ==
    /\ pc = "search" /\ ~returning
    /\ Top.fn = "root" /\ Top.stage = "loop"
    /\ Top.idx <= Len(Top.moves)
    /\ clock < 2
    /\ MakeAndCall(Top, NewFrame("minimax", Top.depth - 1, Top.alpha, Top.beta,
                                 ~Top.is_maximizing))
    /\ UNCHANGED <<nodes_searched, pc, searchRest>>
    /\ UNCHANGED countVars

\* self.best_move while the root loop runs: assigned after the loop only.
SelfBestPublishedEarly(self_best, local_best) == local_best

SelfBestDuringRoot(self_best, local_best) == self_best

\* The root loop takes the score of the move it made: undo, update.
RootResume ==
    /\ pc = "search" /\ returning
    /\ Top.fn = "root"
    /\ LET f == Top
           m == f.moves[f.idx]
           better == IF f.is_maximizing THEN retval > f.best ELSE retval < f.best
           new_best_mv == IF better THEN m ELSE f.best_mv
       IN  /\ board' = UndoMove(board, m, f.piece, f.captured)
           /\ stack' = ReplaceTop(stack,
                         [f EXCEPT !.stage = "loop",
                                   !.idx = f.idx + 1,
                                   !.best = IF better THEN retval ELSE f.best,
                                   !.best_mv = new_best_mv,
                                   !.alpha = IF f.is_maximizing
                                             THEN Max2(f.alpha, retval) ELSE f.alpha,
                                   !.beta = IF f.is_maximizing
                                            THEN f.beta ELSE Min2(f.beta, retval)])
           /\ best_move' = SelfBestDuringRoot(best_move, new_best_mv)
    /\ current_turn' = Other(current_turn)
    /\ returning' = FALSE
    /\ UNCHANGED <<nodes_searched, pc, retval, cur_depth, max_depth, clock,
                   outcome, result, histVars, othersVars, reuseVars>>
    /\ UNCHANGED countVars

\* _minimax_root returns: self.best_move = best_move, and get_best_move
\* prints the score with format +d, which raises ValueError for a float.
RootReturn ==
    /\ pc = "search" /\ ~returning
    /\ Top.fn = "root" /\ Top.stage = "loop"
    /\ Top.idx > Len(Top.moves)
    /\ best_move' = Top.best_mv
    /\ stack' = << >>
    /\ IF Top.best \in {PosInf, NegInf}
       THEN /\ outcome' = "ValueError"
            /\ pc' = "done"
            /\ UNCHANGED <<cur_depth, completed_best, completed_iters>>
       ELSE /\ completed_best' = Top.best_mv
            /\ completed_iters' = cur_depth
            /\ cur_depth' = cur_depth + 1
            /\ pc' = "loop"
            /\ UNCHANGED outcome
    /\ UNCHANGED <<board, current_turn, nodes_searched, returning, retval,
                   max_depth, clock, result, entry_board, entry_turn,
                   timeout_iter, othersVars, reuseVars>>
    /\ UNCHANGED countVars

\* The top call returns v to its caller.
ReturnValue(v) ==
    /\ stack' = Pop(stack)
    /\ returning' = TRUE
    /\ retval' = v

\* _minimax is entered after the deadline: it raises TimeoutError.
MinimaxTimeout ==
    /\ pc = "search" /\ ~returning
    /\ Top.fn = "minimax" /\ Top.stage = "entry"
    /\ clock = 2
    /\ nodes_searched' = nodes_searched + 1
    /\ TimeoutCaught
    /\ minimax_entries' = minimax_entries + 1
    /\ UNCHANGED quiescence_entries

\* _minimax at depth 0: return self._quiescence_search(board, alpha, beta,
\* is_maximizing, 2).
MinimaxLeaf ==
    /\ pc = "search" /\ ~returning
    /\ Top.fn = "minimax" /\ Top.stage = "entry"
    /\ clock < 2
    /\ Top.depth = 0
    /\ nodes_searched' = nodes_searched + 1
    /\ stack' = ReplaceTop(stack,
                  NewFrame("quiescence", QuiescenceDepth, Top.alpha, Top.beta,
                           Top.is_maximizing))
    /\ UNCHANGED <<board, current_turn, pc, searchRest>>
    /\ minimax_entries' = minimax_entries + 1
    /\ UNCHANGED quiescence_entries

\* _minimax at depth > 0: the game-over return, or the move list.
MinimaxNode ==
    /\ pc = "search" /\ ~returning
    /\ Top.fn = "minimax" /\ Top.stage = "entry"
    /\ clock < 2
    /\ Top.depth > 0
    /\ nodes_searched' = nodes_searched + 1
    /\ LET f == Top
           game_status == GetGameStatus(board, current_turn)
           moves == GetAllLegalMovesVia(board, GenBoard, GenTurn,
                                        ColorOf(f.is_maximizing))
       IN  IF game_status \in {"checkmate", "stalemate"} \/ Len(moves) = 0
           THEN ReturnValue(EvaluatePosition(board, current_turn))
           ELSE /\ stack' = ReplaceTop(stack,
                              [f EXCEPT !.moves = OrderMoves(board, moves),
                                        !.idx = 1,
                                        !.stage = "loop",
                                        !.best = IF f.is_maximizing
                                                 THEN NegInf ELSE PosInf])
                /\ UNCHANGED <<returning, retval>>
    /\ UNCHANGED <<board, current_turn, best_move, pc, cur_depth, max_depth,
                   clock, outcome, result, histVars, othersVars, reuseVars>>
    /\ minimax_entries' = minimax_entries + 1
    /\ UNCHANGED quiescence_entries

\* A _minimax or _quiescence_search loop makes its next move and recurses.
Descend ==
    /\ pc = "search" /\ ~returning
    /\ Top.fn \in {"minimax", "quiescence"} /\ Top.stage = "loop"
    /\ MakeAndCall(Top, NewFrame(Top.fn, Top.depth - 1, Top.alpha, Top.beta,
                                 ~Top.is_maximizing))
    /\ UNCHANGED <<nodes_searched, pc, searchRest>>
    /\ UNCHANGED countVars

\* A cutoff test that prunes within a margin of the window.
CutOffWithMargin(alpha, beta) == beta <= alpha + 200

\* if beta <= alpha: break
CutOff(alpha, beta) == beta <= alpha

\* A _minimax loop takes the score of the move it made: undo, update, and
\* cut off, return after the last move, or go on.
MinimaxResume ==
    /\ pc = "search" /\ returning
    /\ Top.fn = "minimax"
    /\ LET f == Top
           m == f.moves[f.idx]
           best == IF f.is_maximizing
                   THEN Max2(f.best, retval) ELSE Min2(f.best, retval)
           alpha == IF f.is_maximizing THEN Max2(f.alpha, retval) ELSE f.alpha
           beta == IF f.is_maximizing THEN f.beta ELSE Min2(f.beta, retval)
       IN  /\ board' = UndoMove(board, m, f.piece, f.captured)
           /\ IF CutOff(alpha, beta) \/ f.idx = Len(f.moves)
              THEN ReturnValue(best)
              ELSE /\ stack' = ReplaceTop(stack,
                                 [f EXCEPT !.stage = "loop", !.idx = f.idx + 1,
                                           !.best = best, !.alpha = alpha,
                                           !.beta = beta])
                   /\ returning' = FALSE
                   /\ UNCHANGED retval
    /\ current_turn' = Other(current_turn)
    /\ UNCHANGED <<best_move, nodes_searched, pc, cur_depth, max_depth, clock,
                   outcome, result, histVars, othersVars, reuseVars>>
    /\ UNCHANGED countVars

\* _quiescence_search up to its loop: stand pat, bounds, capture list.
QuiescenceEnter ==
    /\ pc = "search" /\ ~returning
    /\ Top.fn = "quiescence" /\ Top.stage = "entry"
    /\ LET f == Top
           stand_pat == EvaluatePosition(board, current_turn)
           alpha == IF f.is_maximizing THEN Max2(f.alpha, stand_pat) ELSE f.alpha
           beta == IF f.is_maximizing THEN f.beta ELSE Min2(f.beta, stand_pat)
           captures == GetCaptureMovesVia(board, GenBoard, GenTurn,
                                          ColorOf(f.is_maximizing))
       IN  IF f.depth = 0 THEN ReturnValue(stand_pat)
           ELSE IF f.is_maximizing /\ stand_pat >= f.beta THEN ReturnValue(f.beta)
           ELSE IF ~f.is_maximizing /\ stand_pat <= f.alpha THEN ReturnValue(f.alpha)
           ELSE IF Len(captures) = 0
                THEN ReturnValue(IF f.is_maximizing THEN alpha ELSE beta)
                ELSE /\ stack' = ReplaceTop(stack,
                                   [f EXCEPT !.moves = captures, !.idx = 1,
                                             !.stage = "loop", !.alpha = alpha,
                                             !.beta = beta])
                     /\ UNCHANGED <<returning, retval>>
    /\ UNCHANGED <<board, current_turn, best_move, nodes_searched, pc, cur_depth,
                   max_depth, clock, outcome, result, histVars, othersVars, reuseVars>>
    /\ quiescence_entries' = quiescence_entries + 1
    /\ UNCHANGED minimax_entries

\* A _quiescence_search loop takes the score of the capture it made.
QuiescenceResume ==
    /\ pc = "search" /\ returning
    /\ Top.fn = "quiescence"
    /\ LET f == Top
           m == f.moves[f.idx]
           alpha == IF f.is_maximizing THEN Max2(f.alpha, retval) ELSE f.alpha
           beta == IF f.is_maximizing THEN f.beta ELSE Min2(f.beta, retval)
       IN  /\ board' = UndoMove(board, m, f.piece, f.captured)
           /\ IF f.is_maximizing /\ alpha >= beta THEN ReturnValue(beta)
              ELSE IF ~f.is_maximizing /\ beta <= alpha THEN ReturnValue(alpha)
              ELSE IF f.idx = Len(f.moves)
                   THEN ReturnValue(IF f.is_maximizing THEN alpha ELSE beta)
                   ELSE /\ stack' = ReplaceTop(stack,
                                      [f EXCEPT !.stage = "loop",
                                                !.idx = f.idx + 1,
                                                !.alpha = alpha, !.beta = beta])
                        /\ returning' = FALSE
                        /\ UNCHANGED retval
    /\ current_turn' = Other(current_turn)
    /\ UNCHANGED <<best_move, nodes_searched, pc, cur_depth, max_depth, clock,
                   outcome, result, histVars, othersVars, reuseVars>>
    /\ UNCHANGED countVars

Next ==
    \/ CallGetBestMove
    \/ Tick
    \/ LoopExit
    \/ CallMinimaxRoot
    \/ RootTimeout
    \/ RootDescend
    \/ RootResume
    \/ RootReturn
    \/ MinimaxTimeout
    \/ MinimaxLeaf
    \/ MinimaxNode
    \/ Descend
    \/ MinimaxResume
    \/ QuiescenceEnter
    \/ QuiescenceResume

Spec == Init /\ [][Next]_vars

EntryLegalMoves == GetAllLegalMoves(entry_board, entry_turn, entry_turn)

\* C1: after get_best_move returns, also when the deadline expired in the
\* middle of an iteration, every tile's piece and the side to move equal
\* their state at the entry of the call.
C1_BoardRestoredOnReturn ==
    (pc = "done" /\ outcome = "returned")
        => (board = entry_board /\ current_turn = entry_turn)

\* C3: when the deadline expires during iteration k > 1, get_best_move
\* returns normally and the move returned is the best move of iteration
\* k - 1, the last completed iteration.
C3_TimeoutReturnsLastCompleted ==
    (pc = "done" /\ timeout_iter > 1)
        => /\ outcome = "returned"
           /\ completed_iters = timeout_iter - 1
           /\ result = completed_best

\* The deadline expired inside _minimax during iteration 2, with a move made
\* on the board, after iteration 1 had chosen a move.
C3_Witness ==
    /\ pc = "done"
    /\ timeout_iter > 1
    /\ result # NoMove
    /\ board # entry_board

\* C4: if the deadline expires before the depth-1 iteration completes and
\* the side to move has a legal move, get_best_move returns a legal move of
\* the side to move.
C4_TimeoutAtDepthOneReturnsLegalMove ==
    (pc = "done" /\ completed_iters = 0 /\ clock >= 1 /\ Len(EntryLegalMoves) > 0)
        => (outcome = "returned" /\ result \in SeqToSet(EntryLegalMoves))

\* C5: get_best_move returns no move whenever the side to move has no legal
\* move (checkmate or stalemate), for every depth and time limit.
C5_NoMoveWhenGameEnded ==
    (pc = "done" /\ Len(EntryLegalMoves) = 0)
        => (outcome = "returned" /\ result = NoMove)

IsCapture(b, m) == b[<<m[3], m[4]>>] # NoPiece

\* The move list of a _minimax_root or _minimax node is on top of the
\* stack, no move of it made yet: the board is the node's position.
AtOrderedNode ==
    /\ pc = "search"
    /\ ~returning
    /\ stack # << >>
    /\ Top.fn \in {"root", "minimax"}
    /\ Top.stage = "loop"
    /\ Top.idx = 1

\* C17: within a search node every capturing move comes before every
\* non-capturing move, captures are sorted by victim value x 10 - attacker
\* value, descending, and the non-captures keep the generator's order; for
\* every attacker kind, the king included.
C17_CapturesFirstMvvLva ==
    AtOrderedNode =>
        LET moves == Top.moves
            generated == GetAllLegalMoves(board, current_turn, ColorOf(Top.is_maximizing))
        IN  /\ \A i, j \in DOMAIN moves :
                  (i < j /\ IsCapture(board, moves[j])) => IsCapture(board, moves[i])
            /\ \A i, j \in DOMAIN moves :
                  (i < j /\ IsCapture(board, moves[j]))
                      => MoveScore(board, moves[i]) >= MoveScore(board, moves[j])
            /\ SelectSeq(moves, LAMBDA m : ~IsCapture(board, m))
                 = SelectSeq(generated, LAMBDA m : ~IsCapture(board, m))

\* C18: in every iteration k >= 2 of the iterative deepening the first root
\* move searched is the best move of the completed iteration k - 1.
C18_PreviousBestSearchedFirst ==
    (pc = "search" /\ stack # << >> /\ stack[1].fn = "root"
                   /\ stack[1].depth >= 2 /\ Len(stack[1].moves) > 0)
        => stack[1].moves[1] = completed_best

\* C19: the deadline is checked at the entry of every search node, the
\* quiescence nodes included: once the elapsed time is past the limit, a
\* node that is entered raises TimeoutError, no _minimax or
\* _quiescence_search call returns a value and no move is made on the board.
C19_DeadlineCheckedAtEveryNode ==
    [][(clock = 2 /\ pc = "search") =>
          /\ (~returning /\ Top.stage = "entry") => pc' = "done"
          /\ Len(stack') <= Len(stack)
          /\ ~(returning' /\ ~returning)]_vars

\* C20: nodes_searched is reset to 0 at the start of get_best_move and from
\* then on equals the number of entries into _minimax plus the number of
\* entries into _quiescence_search made during the call.
C20_NodesCountAllEntries ==
    pc # "idle" => nodes_searched = minimax_entries + quiescence_entries


\* ---------------------------------------------------------------------
\* The evaluator called on a position.

\* The colour-and-coordinate mirror of a position.
MirrorBoard(b) ==
    [t \in Tiles |->
        LET p == b[<<-t[1], -t[2]>>]
        IN  IF p = NoPiece THEN NoPiece ELSE <<Other(p[1]), p[2]>>]

\* A checkmated White that is ahead in material.
MatedAheadBoard ==
    [t \in Tiles |->
        CASE t = <<5, -5>> -> <<"white", "king">>
          [] t = <<3, -3>> -> <<"black", "king">>
          [] t = <<1, -5>> -> <<"black", "queen">>
          [] t = <<0, 3>> -> <<"white", "knight">>
          [] t = <<5, 0>> -> <<"white", "queen">>
          [] OTHER -> NoPiece]

EvalBaseBoards ==
    SmallBoards \cup SearchBoards
        \cup {SetupInitialBoard(EmptyBoard), MatedAheadBoard}

EvalBoards == EvalBaseBoards \cup {MirrorBoard(b) : b \in EvalBaseBoards}

EvalInit ==
    /\ board \in EvalBoards
    /\ current_turn \in Colors
    /\ val_turn = "white"
    /\ EngineInit /\ HistInit /\ ProbeInit /\ GenInit /\ SetupVarsInit
    /\ EvalVarsInit /\ ReuseVarsInit

\* The "mobility" term of evaluate_position.
MobilityScore(b, turn) ==
    (CountMobility(b, turn, "white") - CountMobility(b, turn, "black")) * 2

\* The "check" term of evaluate_position.
CheckScore(b) ==
    (IF InCheck(b, "white") THEN -50 ELSE 0)
    + (IF InCheck(b, "black") THEN 50 ELSE 0)

\* The locals of evaluate_position at its return statement; the terms are
\* not computed when the game-over branch returns.
EvaluateLocals(b, turn) ==
    LET game_status == GetGameStatus(b, turn)
    IN  IF game_status \in {"checkmate", "stalemate"}
        THEN [game_status |-> game_status, material_score |-> 0,
              pst_score |-> 0, mobility_score |-> 0, check_score |-> 0]
        ELSE [game_status |-> game_status,
              material_score |-> Material(b, "white") - Material(b, "black"),
              pst_score |-> PstScore(b),
              mobility_score |-> MobilityScore(b, turn),
              check_score |-> CheckScore(b)]

\* evaluator.evaluate_position(board)
Evaluate ==
    /\ ~eval_done
    /\ eval_done' = TRUE
    /\ eval_score' = EvaluatePosition(board, current_turn)
    /\ eval_locals' = EvaluateLocals(board, current_turn)
    /\ UNCHANGED <<boardVars, engineVars, histVars, probeVars, genVars,
                   setupVars, reuseVars>>

EvalNext == Evaluate

SpecEval == EvalInit /\ [][EvalNext]_vars

\* The side to move has no move that keeps its king safe.
NoLegalMove(b, turn) ==
    \A t \in Tiles :
        b[t][1] = turn => Len(LegalMovesFrom(b, turn, t[1], t[2])) = 0

\* C21: evaluate_position returns -100000 when White is to move and
\* checkmated, +100000 when Black is to move and checkmated, and 0 on
\* stalemate, whatever the material, the placement and the mobility are.
C21_TerminalScoresOverride ==
    (eval_done /\ NoLegalMove(board, current_turn)) =>
        eval_score =
            IF ~InCheck(board, current_turn) THEN 0
            ELSE IF current_turn = "white" THEN -100000 ELSE 100000

\* White is checkmated while ahead in material, and the score is -100000.
C21_Witness ==
    /\ eval_done
    /\ current_turn = "white"
    /\ NoLegalMove(board, current_turn)
    /\ InCheck(board, "white")
    /\ Material(board, "white") > Material(board, "black")
    /\ eval_score = -100000

\* The pseudo-legal moves of all pieces of a colour, whoever is to move.
PseudoLegalCount(b, color) ==
    SumOverTiles([t \in Tiles |->
                    IF b[t][1] = color THEN Len(PieceMoves(b, t[1], t[2]))
                    ELSE 0])

\* C22: in every non-terminal position the mobility term is twice the
\* difference of the pseudo-legal move counts of White and Black, both
\* colours counted in full whichever side is to move.
C22_MobilityCountsBothColors ==
    (eval_done /\ eval_locals.game_status \notin {"checkmate", "stalemate"}) =>
        eval_locals.mobility_score =
            2 * (PseudoLegalCount(board, "white")
                 - PseudoLegalCount(board, "black"))

\* +10 for each white and -10 for each black non-king piece within hex
\* distance 2 of the centre.
CenterControl(b) ==
    SumOverTiles([t \in Tiles |->
                    IF b[t] = NoPiece \/ b[t][2] = "king"
                       \/ HexDistance(t[1], t[2]) > 2
                    THEN 0
                    ELSE IF b[t][1] = "white" THEN 10 ELSE -10])

\* C23: the positional term of evaluate_position is centre control only,
\* +-10 for each non-king piece within hex distance 2 of (0,0) and 0 for
\* every other piece.
C23_PositionalIsCenterControl ==
    (eval_done /\ eval_locals.game_status \notin {"checkmate", "stalemate"}) =>
        eval_locals.pst_score = CenterControl(board)

QuiescenceFrames(st) == {i \in DOMAIN st : st[i].fn = "quiescence"}

\* A _quiescence_search call at its entry takes its step.
QuiescenceEntryStep ==
    /\ pc = "search" /\ ~returning
    /\ stack # << >>
    /\ Top.fn = "quiescence" /\ Top.stage = "entry"
    /\ stack' # stack

\* The step returns v to the caller and makes no move.
ReturnsWithoutMove(v) ==
    /\ returning' /\ retval' = v
    /\ stack' = Pop(stack)
    /\ board' = board /\ current_turn' = current_turn

\* The step enters the loop with the given bounds, over captures only.
LoopsOverCaptures(alpha, beta) ==
    LET g == stack'[Len(stack')]
    IN  /\ Len(stack') = Len(stack)
        /\ g.stage = "loop" /\ g.alpha = alpha /\ g.beta = beta
        /\ g.moves # << >>
        /\ \A i \in DOMAIN g.moves :
              /\ board[<<g.moves[i][3], g.moves[i][4]>>] # NoPiece
              /\ g.moves[i] \in
                    SeqToSet(GetAllLegalMoves(board, current_turn,
                                              ColorOf(g.is_maximizing)))
        /\ board' = board /\ current_turn' = current_turn

\* C24: quiescence search at remaining depth > 0 returns beta without a
\* move when a maximizing node has stand_pat >= beta and otherwise raises
\* alpha to max(alpha, stand_pat), symmetrically for a minimizing node; it
\* recurses only on legal moves to an occupied cell; the recursion is at
\* most 2 plies deep; at quiescence depth 0 it returns the static score.
C24_QuiescenceStandPatAndCaptures ==
    [][/\ QuiescenceEntryStep =>
            LET f == Top
                stand_pat == EvaluatePosition(board, current_turn)
            IN  IF f.depth = 0 THEN ReturnsWithoutMove(stand_pat)
                ELSE IF f.is_maximizing
                THEN IF stand_pat >= f.beta THEN ReturnsWithoutMove(f.beta)
                     ELSE \/ LoopsOverCaptures(Max2(f.alpha, stand_pat), f.beta)
                          \/ ReturnsWithoutMove(Max2(f.alpha, stand_pat))
                ELSE IF stand_pat <= f.alpha THEN ReturnsWithoutMove(f.alpha)
                     ELSE \/ LoopsOverCaptures(f.alpha, Min2(f.beta, stand_pat))
                          \/ ReturnsWithoutMove(Min2(f.beta, stand_pat))
       /\ \A i \in QuiescenceFrames(stack') :
             stack'[i].depth \in 0..QuiescenceDepth
       /\ Cardinality({i \in QuiescenceFrames(stack') :
                          stack'[i].stage = "wait"}) <= 2
      ]_vars

\* Two captures deep in quiescence, the call at depth 0 has returned the
\* static score of the position it was entered on.
C24_Witness ==
    /\ pc = "search" /\ returning
    /\ stack # << >>
    /\ Top.fn = "quiescence" /\ Top.stage = "wait" /\ Top.depth = 1
    /\ Cardinality({i \in QuiescenceFrames(stack) : stack[i].stage = "wait"}) = 2
    /\ retval = EvaluatePosition(board, current_turn)


\* C25: at the entry of every _minimax and _quiescence_search call,
\* is_maximizing is true exactly when board.current_turn is 'white', so the
\* colour a node enumerates moves for is the board's side to move.
C25_MaximizingIsWhiteToMove ==
    (/\ pc = "search" /\ ~returning
     /\ stack # << >>
     /\ Top.fn \in {"minimax", "quiescence"}
     /\ Top.stage = "entry") =>
        (Top.is_maximizing <=> current_turn = "white")

\* A _quiescence_search call is entered three plies below a root where
\* White was to move: it minimizes and Black is to move.
C25_Witness ==
    /\ pc = "search" /\ ~returning
    /\ Len(stack) >= 4
    /\ stack[1].fn = "root" /\ stack[1].is_maximizing
    /\ Top.fn = "quiescence" /\ Top.stage = "entry"
    /\ ~Top.is_maximizing
    /\ current_turn = "black"


\* ---------------------------------------------------------------------
\* Minimax without cutoffs, over the same move order, quiescence extension
\* and evaluator.

\* The largest / smallest value of a non-empty sequence of scores.
SeqMax(f) == CHOOSE x \in SeqToSet(f) : \A y \in SeqToSet(f) : x >= y

SeqMin(f) == CHOOSE x \in SeqToSet(f) : \A y \in SeqToSet(f) : x <= y

RECURSIVE PlainQuiescence(_, _, _, _)
PlainQuiescence(b, turn, is_maximizing, depth) ==
    LET stand_pat == EvaluatePosition(b, turn)
    IN  IF depth = 0 THEN stand_pat
        ELSE LET captures == GetCaptureMoves(b, turn, ColorOf(is_maximizing))
                 scores == [i \in DOMAIN captures |->
                              PlainQuiescence(MakeMove(b, captures[i]),
                                              Other(turn), ~is_maximizing,
                                              depth - 1)]
             IN  IF is_maximizing THEN SeqMax(<<stand_pat>> \o scores)
                 ELSE SeqMin(<<stand_pat>> \o scores)

RECURSIVE PlainMinimax(_, _, _, _)
PlainMinimax(b, turn, depth, is_maximizing) ==
    IF depth = 0
    THEN PlainQuiescence(b, turn, is_maximizing, QuiescenceDepth)
    ELSE LET moves == GetAllLegalMoves(b, turn, ColorOf(is_maximizing))
         IN  IF GetGameStatus(b, turn) \in {"checkmate", "stalemate"}
                \/ Len(moves) = 0
             THEN EvaluatePosition(b, turn)
             ELSE LET scores == [i \in DOMAIN moves |->
                                   PlainMinimax(MakeMove(b, moves[i]),
                                                Other(turn), depth - 1,
                                                ~is_maximizing)]
                  IN  IF is_maximizing THEN SeqMax(scores) ELSE SeqMin(scores)

\* <<score, move>> of the root: the first move, in the root's order, whose
\* score is the best one; <<+-infinity, None>> when there is no move.
PlainRoot(b, turn, depth) ==
    LET is_maximizing == (turn = "white")
        moves == OrderMoves(b, GetAllLegalMoves(b, turn, turn))
        scores == [i \in DOMAIN moves |->
                     PlainMinimax(MakeMove(b, moves[i]), Other(turn),
                                  depth - 1, ~is_maximizing)]
    IN  IF Len(moves) = 0
        THEN <<IF is_maximizing THEN NegInf ELSE PosInf, NoMove>>
        ELSE LET best == IF is_maximizing THEN SeqMax(scores)
                         ELSE SeqMin(scores)
                 first == CHOOSE i \in DOMAIN moves :
                             /\ scores[i] = best
                             /\ \A j \in 1..(i - 1) : scores[j] # best
             IN  <<best, moves[first]>>

\* The root loop of _minimax_root has taken its last move.
RootLoopOver ==
    /\ pc = "search" /\ ~returning
    /\ stack # << >>
    /\ Top.fn = "root" /\ Top.stage = "loop"
    /\ Top.idx > Len(Top.moves)

\* C26: with no deadline expiry, the score and the move _minimax_root ends
\* with equal those of a minimax without any cutoff over the same move
\* order, quiescence extension and evaluator.
C26_PruningKeepsRootResult ==
    RootLoopOver =>
        <<Top.best, Top.best_mv>> = PlainRoot(board, current_turn, Top.depth)

\* The _minimax calls of a depth-1 and a depth-2 iteration that cut nothing
\* off: one for each root move, twice, and one for each reply.
PlainMinimaxCalls(b, turn) ==
    LET moves == GetAllLegalMoves(b, turn, turn)
    IN  2 * Len(moves)
        + SumTo([i \in 1..Len(moves) |->
                   Len(GetAllLegalMoves(MakeMove(b, moves[i]), Other(turn),
                                        Other(turn)))],
                Len(moves))

\* The root loop of the depth-2 iteration is over, cutoffs have happened
\* below it, and its score and move are those of the plain search.
C26_Witness ==
    /\ RootLoopOver
    /\ Top.depth = 2
    /\ Top.best_mv # NoMove
    /\ minimax_entries < PlainMinimaxCalls(board, current_turn)
    /\ <<Top.best, Top.best_mv>> = PlainRoot(board, current_turn, Top.depth)


\* ---------------------------------------------------------------------
\* One engine, several get_best_move calls, each on its own board object,
\* with a time limit that never runs out.

MaxCalls == 2

\* The positions the calls are made on.
ReusePieces ==
    { {<<1, 4, "white", "king">>, <<1, -5, "black", "king">>,
       <<0, 0, "white", "pawn">>, <<1, -1, "black", "knight">>},
      {<<-5, 5, "white", "king">>, <<5, -5, "black", "king">>,
       <<2, -2, "white", "rook">>, <<-2, 1, "white", "rook">>,
       <<-2, 3, "black", "knight">>} }

ReuseBoards ==
    {[t \in Tiles |->
        IF \E e \in S : <<e[1], e[2]>> = t
        THEN LET e == CHOOSE e \in S : <<e[1], e[2]>> = t IN <<e[3], e[4]>>
        ELSE NoPiece] : S \in ReusePieces}

ReuseInit ==
    /\ board \in ReuseBoards
    /\ current_turn \in Colors
    /\ val_turn = "white"
    /\ EngineInit /\ HistInit /\ ProbeInit /\ GenInit /\ SetupVarsInit
    /\ EvalVarsInit /\ ReuseVarsInit

\* The caller takes the move of the finished call and calls get_best_move
\* again on another board object: the earlier board stays as the call
\* left it, and it is the one self.move_gen was built on.
CallGetBestMoveAgain ==
    /\ pc = "done"
    /\ calls < MaxCalls
    /\ board' \in ReuseBoards
    /\ current_turn' \in Colors
    /\ bound_board' = IF move_gen = calls THEN board ELSE bound_board
    /\ bound_turn' = IF move_gen = calls THEN current_turn ELSE bound_turn
    /\ calls' = calls + 1
    /\ \E depth \in 1..MaxDepth : max_depth' = depth
    /\ clock' = 0
    /\ nodes_searched' = 0
    /\ best_move' = NoMove
    /\ cur_depth' = 1
    /\ pc' = "loop"
    /\ entry_board' = board'
    /\ entry_turn' = current_turn'
    /\ outcome' = "none"
    /\ result' = NoMove
    /\ completed_best' = NoMove
    /\ completed_iters' = 0
    /\ timeout_iter' = 0
    /\ minimax_entries' = 0
    /\ quiescence_entries' = 0
    /\ UNCHANGED <<stack, returning, retval, move_gen, othersVars>>

ReuseNext ==
    \/ CallGetBestMove
    \/ CallGetBestMoveAgain
    \/ LoopExit
    \/ CallMinimaxRoot
    \/ RootDescend
    \/ RootResume
    \/ RootReturn
    \/ MinimaxLeaf
    \/ MinimaxNode
    \/ Descend
    \/ MinimaxResume
    \/ QuiescenceEnter
    \/ QuiescenceResume

SpecReuse == ReuseInit /\ [][ReuseNext]_vars

\* C27: in every get_best_move call on an engine, the moves a node
\* enumerates are generated from the board passed to that call, as it
\* stands at the node: the generator and the validator the engine keeps
\* between calls never read the board of an earlier call.
C27_MovesComeFromTheCallsBoard ==
    (/\ pc = "search" /\ ~returning
     /\ stack # << >>
     /\ Top.stage = "loop" /\ Top.idx = 1) =>
        Top.moves =
            IF Top.fn = "quiescence"
            THEN GetCaptureMoves(board, current_turn, ColorOf(Top.is_maximizing))
            ELSE OrderMoves(board,
                            GetAllLegalMoves(board, current_turn,
                                             ColorOf(Top.is_maximizing)))

====
